---- MODULE Spec2Model ----
(***************************************************************************)
(* The playback and turn-taking engine of frontend/src/App.js: PCMPlayer    *)
(* (feed, flush, checkPlaybackEnd, stop, destroy), the interruption         *)
(* debounce of handleMessage (speech_started / speech_stopped), and the     *)
(* session lifecycle (startSession, stopSession).                           *)
(*                                                                          *)
(* Time is counted in sample periods of the 24 kHz hardware clock, so a     *)
(* segment of n samples lasts n ticks and one millisecond is 24 ticks.      *)
(* Date.now() and audioCtx.currentTime are read from the same clock `now`.  *)
(* The event loop is single threaded: every action below is one handler     *)
(* run to completion.  The callbacks of the hardware timeline (onended)     *)
(* and of the PCMPlayer timers are delivered before the clock advances by   *)
(* another step; the debounce timer and the messages may be late by any     *)
(* amount.  The sessions use the default interruption_config, those of the  *)
(* interruption arbiter alone any of three; the transport's own close event *)
(* (ws.onclose) is left out.                                                *)
(*                                                                          *)
(* AudioCaptureProcessor (frontend/public/audio-processor.js) runs on the   *)
(* audio thread and shares no state with the component; it has its own      *)
(* variables and its own specification.                                     *)
(***************************************************************************)
EXTENDS Integers, Sequences, FiniteSets, TLC

----------------------------------------------------------------------------
(* Program constants *)

SAMPLE_RATE == 24000

Ms(x) == x * (SAMPLE_RATE \div 1000)

\* PCMPlayer.constructor: Math.floor(sampleRate * 0.15), Math.floor(sampleRate * 0.5)
minBufferSize == (SAMPLE_RATE * 15) \div 100
maxBufferSize == (SAMPLE_RATE * 5) \div 10
\* PCMPlayer.feed: Math.floor(sampleRate * 0.12)
chunkSize == (SAMPLE_RATE * 12) \div 100
\* PCMPlayer.flush: scheduleAhead = 0.05 s
scheduleAhead == Ms(50)
\* PCMPlayer.checkPlaybackEnd: setTimeout(..., 200) and the 0.05 s slack
EndCheckMs == 200
EndSlackMs == 50
\* PCMPlayer.stop: setTimeout(..., 100)
GainResetMs == 100

\* AudioCaptureProcessor.constructor: this.bufferSize = 4096
bufferSize == 4096

\* interruptionConfigRef initial value
DefaultConfig == [min_speech_duration_ms |-> 400, debounce_ms |-> 300]

----------------------------------------------------------------------------
(* Bounds of the model *)

\* the clock advances in steps of StepMs milliseconds, MaxClock times at most
StepMs == 100
MaxClock == 4
\* audio frames delivered in one run
MaxFeeds == 2
\* audio frames delivered in one run of the playback engine alone
MaxPlaybackFeeds == 3

\* sample counts of the frames the transport delivers
ChunkSizes == {1, 3600}

\* audio frames delivered in one run of the buffering, and their sample counts
MaxBufferFeeds == 3
BufferSizes == {1, chunkSize - 2, chunkSize - 1, minBufferSize - 1, maxBufferSize}
\* audio frames delivered in one run with a context that may be suspended
MaxSuspendFeeds == 2
\* audio frames delivered in one run of the decoding
MaxDecodeFeeds == 2
\* 16-bit samples the frames of the decoding carry, and their sample counts
Samples == {0 - 2^15, 0 - 1, 0, 1, 2^15 - 1}
FrameLens == {0, 1, 2}
Arrays == UNION {[1 .. k -> {[v |-> x, n |-> 1] : x \in Samples}] : k \in FrameLens}

\* interruption_config values a session setup may merge in (ws.onopen)
Configs == {DefaultConfig}

\* audio frames delivered in one run of the interruption arbiter, and the
\* interruption_config values of its sessions: the default, one whose timer
\* outlasts the minimum speech duration, one whose timer fires within half of it
MaxArbiterFeeds == 2
ArbiterConfigs ==
  {DefaultConfig,
   [min_speech_duration_ms |-> 2 * StepMs, debounce_ms |-> 4 * StepMs],
   [min_speech_duration_ms |-> 4 * StepMs, debounce_ms |-> StepMs]}

\* process() calls of the capture worklet, and the lengths of their inputs
MaxCaptureCalls == 4
CaptureSizes == {1, 128, bufferSize - 1, bufferSize, bufferSize + 1, 2 * bufferSize + 1}

None == -1

----------------------------------------------------------------------------
VARIABLES
  now,                   \* the clock, in ticks
  connected,             \* the WebSocket is open and delivers messages
  status,                \* the text given to setStatus last
  config,                \* interruptionConfigRef.current
  pcmPlayerRef,          \* pcmPlayerRef.current is not null
  gen,                   \* number of PCMPlayer objects created so far
  player,                \* the fields of pcmPlayerRef.current
  timers,                \* outstanding PCMPlayer timers, of every player object
  isStreamingRef,        \* isStreamingRef.current (setIsSpeaking mirrors it)
  speechStartedAtRef,    \* speechStartedAtRef.current, None for null
  pendingInterruptionRef,
  debounceTimer,         \* the outstanding timer of interruptionDebounceRef
  debounceTimers,        \* the debounce timers set and neither fired nor cleared
  superseded,            \* the last speech_started found a debounce timer running
  interrupted,           \* the arbiter has called stopAllAudio since the last speech_started
  sources,               \* the buffer sources started and neither stopped nor ended
  cancelled,             \* the buffer sources stopped by stop(), onended still to come
  lastEnd,               \* history: end of the last segment placed since the last reset/stop
  hiStart,               \* history: latest start time given to a segment of this player
  fed,                   \* history: samples fed since the last reset/stop
  sched,                 \* history: samples scheduled since the last reset/stop
  pcm,                   \* the contents of player.samples, as runs of equal values
  played,                \* history: the contents scheduled since the last reset/stop, in order
  arrived,               \* history: the 16-bit samples the frames carried since then, in order
  nFeeds,                \* history: audio frames delivered
  quiet,                 \* history: no speech event since the debounce timer was armed
  silent,                \* history: the latest speech began with the AI silent and no
                         \* interruption pending
  speechBeganAt,         \* history: Date.now() at the latest speech_started, while an
                         \* interruption is pending; None otherwise
  lastOp,                \* history: the handler that ran last
  lastStop,              \* history: that handler called stopAllAudio
  capture,               \* AudioCaptureProcessor: buffer, bufferIndex, and the messages posted
  nInput,                \* history: the input samples process() has been given
  nCalls                 \* history: the process() calls made

vars == <<now, connected, status, config, pcmPlayerRef, gen, player, timers,
          isStreamingRef, speechStartedAtRef, pendingInterruptionRef,
          debounceTimer, debounceTimers, superseded, interrupted,
          sources, cancelled, lastEnd, hiStart, fed, sched,
          pcm, played, arrived, nFeeds, quiet, silent, speechBeganAt, lastOp,
          lastStop, capture, nInput, nCalls>>

\* the state of the capture worklet, which runs on the audio thread
captureVars == <<capture, nInput, nCalls>>

\* PCMPlayer.constructor. state is audioCtx.state once the context is made;
\* locked says that the browser refuses to resume the context
NewPlayer ==
  [audioCtx |-> FALSE, scheduledTime |-> 0, samples |-> 0,
   isPlaying |-> FALSE, isBuffering |-> TRUE, scheduledBuffers |-> <<>>,
   faded |-> FALSE, state |-> "running", locked |-> FALSE]

NoTimer == [armed |-> FALSE, at |-> 0, min |-> 0]

\* setTimeout(callback, config.debounce_ms) at time t: the timer, with the
\* config its callback has captured
setTimeout(t, c) ==
  [armed |-> TRUE, at |-> t + Ms(c.debounce_ms), min |-> c.min_speech_duration_ms]

\* clearTimeout(x), of the outstanding debounce timers ts
clearTimeout(ts, x) == ts \ {x}

\* AudioCaptureProcessor.constructor. An array of samples is a sequence of
\* runs [first, n], the zeros of a new Float32Array having first = 0.
NewCapture ==
  [buffer |-> <<[first |-> 0, n |-> bufferSize]>>, bufferIndex |-> 0, posted |-> <<>>]

\* what the PCMPlayer methods read and write, as one value
M == [ref |-> pcmPlayerRef, p |-> player, gen |-> gen, sources |-> sources, cancelled |-> cancelled,
      lastEnd |-> lastEnd, hiStart |-> hiStart, fed |-> fed, sched |-> sched,
      timers |-> timers, streaming |-> isStreamingRef,
      pcm |-> pcm, played |-> played, arrived |-> arrived]

----------------------------------------------------------------------------
(* Frames and their decoding *)

(* An array is a sequence of runs [v |-> value, n |-> count]: n elements    *)
(* equal to v.  The bytes of a frame, after atob, are runs of byte pairs    *)
(* [lo, hi, n] followed by `extra` bytes that pair with nothing; b64ok says *)
(* that atob accepts the frame's text.                                      *)

\* number of elements of an array
RECURSIVE Size(_)
Size(a) == IF a = <<>> THEN 0 ELSE Head(a).n + Size(Tail(a))

\* a Float32Array element is [m |-> mantissa, e |-> exponent], the number
\* m * 2^e with 2^23 <= |m| < 2^24, or m = 0
Zero32 == [m |-> 0, e |-> 0]

\* the division num / den of two positive numbers stored in a Float32Array:
\* 24 significant bits of the quotient, rounded to nearest, ties to even.
\* q, r and k keep num * 2^k = q * den + r with 0 <= r < den.
RECURSIVE Quotient32(_, _, _, _)
Quotient32(q, r, k, den) ==
  IF q >= 2^23
  THEN LET up == 2 * r > den \/ (2 * r = den /\ q % 2 = 1)
           q1 == IF up THEN q + 1 ELSE q
       IN IF q1 = 2^24 THEN [m |-> 2^23, e |-> 1 - k] ELSE [m |-> q1, e |-> 0 - k]
  ELSE IF 2 * r >= den
       THEN Quotient32(2 * q + 1, 2 * r - den, k + 1, den)
       ELSE Quotient32(2 * q, 2 * r, k + 1, den)

\* int16ToFloat32 with a slip: every sample is divided by 0x8000
scaleOne(x) ==
  IF x = 0 THEN Zero32
  ELSE IF x < 0
       THEN [Quotient32((0 - x) \div 2^15, (0 - x) % 2^15, 0, 2^15) EXCEPT !.m = 0 - @]
       ELSE Quotient32(x \div 2^15, x % 2^15, 0, 2^15)

\* int16ToFloat32, one element: x / (x < 0 ? 0x8000 : 0x7FFF)
scale(x) ==
  IF x = 0 THEN Zero32
  ELSE IF x < 0
       THEN [Quotient32((0 - x) \div 2^15, (0 - x) % 2^15, 0, 2^15) EXCEPT !.m = 0 - @]
       ELSE Quotient32(x \div (2^15 - 1), x % (2^15 - 1), 0, 2^15 - 1)

\* int16ToFloat32
int16ToFloat32(int16Array) ==
  [i \in DOMAIN int16Array |-> [v |-> scale(int16Array[i].v), n |-> int16Array[i].n]]

\* atob and new Int16Array(bytes.buffer) with a slip: a byte that pairs with
\* nothing is left out instead of raising RangeError
DecodesLenient(frame) == frame.b64ok

\* atob raises on text that is not base64, new Int16Array(bytes.buffer) raises
\* RangeError when the byte length is odd
Decodes(frame) == frame.b64ok /\ frame.extra % 2 = 0

\* new Int16Array(bytes.buffer): the byte pairs read as 16-bit signed
\* little-endian numbers
Int16Array(frame) ==
  [i \in DOMAIN frame.units |->
     [v |-> LET u == frame.units[i].lo + 256 * frame.units[i].hi
            IN IF u >= 2^15 THEN u - 2^16 ELSE u,
      n |-> frame.units[i].n]]

----------------------------------------------------------------------------
(* PCMPlayer *)

\* PCMPlayer.init
init(m, t) ==
  [m EXCEPT !.p.audioCtx = TRUE, !.p.faded = FALSE, !.p.scheduledTime = t,
            !.p.state = "running"]

\* the identity of a new buffer source: one no object alive has
FreeId(m) ==
  LET used == {s.id : s \in m.sources} \cup {c.id : c \in m.cancelled}
  IN CHOOSE i \in 1 .. (Cardinality(used) + 1) :
       i \notin used /\ \A j \in 1 .. (i - 1) : j \in used

\* flush with a slip: the pending samples are not cleared after scheduling
flushKeep(m, t) ==
  IF ~m.p.audioCtx \/ m.p.samples = 0 THEN m
  ELSE
    LET st  == IF m.p.scheduledTime < t + scheduleAhead
               THEN t + scheduleAhead ELSE m.p.scheduledTime
        id  == FreeId(m)
        seg == [id |-> id, start |-> st, dur |-> m.p.samples, gen |-> m.gen,
                at |-> t, prevEnd |-> m.lastEnd, hi |-> m.hiStart]
    IN [m EXCEPT !.p.scheduledTime = st + m.p.samples,
                 !.p.scheduledBuffers = Append(@, id),
                 !.p.isPlaying = TRUE,
                 !.streaming = IF m.p.isPlaying THEN @ ELSE TRUE,
                 !.sources = @ \cup {seg},
                 !.lastEnd = st + m.p.samples,
                 !.hiStart = IF st > @ THEN st ELSE @,
                 !.played = @ \o m.pcm,
                 !.sched = @ + m.p.samples]

\* flush with a slip: the cursor is not advanced by the segment's duration
flushNoAdvance(m, t) ==
  IF ~m.p.audioCtx \/ m.p.samples = 0 THEN m
  ELSE
    LET st  == IF m.p.scheduledTime < t + scheduleAhead
               THEN t + scheduleAhead ELSE m.p.scheduledTime
        id  == FreeId(m)
        seg == [id |-> id, start |-> st, dur |-> m.p.samples, gen |-> m.gen,
                at |-> t, prevEnd |-> m.lastEnd, hi |-> m.hiStart]
    IN [m EXCEPT !.p.scheduledTime = st,
                 !.p.scheduledBuffers = Append(@, id),
                 !.p.isPlaying = TRUE,
                 !.streaming = IF m.p.isPlaying THEN @ ELSE TRUE,
                 !.p.samples = 0,
                 !.pcm = <<>>,
                 !.sources = @ \cup {seg},
                 !.lastEnd = st + m.p.samples,
                 !.hiStart = IF st > @ THEN st ELSE @,
                 !.played = @ \o m.pcm,
                 !.sched = @ + m.p.samples]

\* flush with a slip: no early return on an empty pending buffer
flushNoGuard(m, t) ==
  IF ~m.p.audioCtx THEN m
  ELSE
    LET st  == IF m.p.scheduledTime < t + scheduleAhead
               THEN t + scheduleAhead ELSE m.p.scheduledTime
        id  == FreeId(m)
        seg == [id |-> id, start |-> st, dur |-> m.p.samples, gen |-> m.gen,
                at |-> t, prevEnd |-> m.lastEnd, hi |-> m.hiStart]
    IN [m EXCEPT !.p.scheduledTime = st + m.p.samples,
                 !.p.scheduledBuffers = Append(@, id),
                 !.p.isPlaying = TRUE,
                 !.streaming = IF m.p.isPlaying THEN @ ELSE TRUE,
                 !.p.samples = 0,
                 !.pcm = <<>>,
                 !.sources = @ \cup {seg},
                 !.lastEnd = st + m.p.samples,
                 !.hiStart = IF st > @ THEN st ELSE @,
                 !.played = @ \o m.pcm,
                 !.sched = @ + m.p.samples]

\* flush with a slip: the cursor is moved only when it lies behind the clock
\* itself, not when it lies within the lookahead
flushBehindOnly(m, t) ==
  IF ~m.p.audioCtx \/ m.p.samples = 0 THEN m
  ELSE
    LET st  == IF m.p.scheduledTime < t
               THEN t + scheduleAhead ELSE m.p.scheduledTime
        id  == FreeId(m)
        seg == [id |-> id, start |-> st, dur |-> m.p.samples, gen |-> m.gen,
                at |-> t, prevEnd |-> m.lastEnd, hi |-> m.hiStart]
    IN [m EXCEPT !.p.scheduledTime = st + m.p.samples,
                 !.p.scheduledBuffers = Append(@, id),
                 !.p.isPlaying = TRUE,
                 !.streaming = IF m.p.isPlaying THEN @ ELSE TRUE,
                 !.p.samples = 0,
                 !.pcm = <<>>,
                 !.sources = @ \cup {seg},
                 !.lastEnd = st + m.p.samples,
                 !.hiStart = IF st > @ THEN st ELSE @,
                 !.played = @ \o m.pcm,
                 !.sched = @ + m.p.samples]

\* flush with a slip: every segment is placed at the clock plus the lookahead,
\* wherever the cursor is
flushRewind(m, t) ==
  IF ~m.p.audioCtx \/ m.p.samples = 0 THEN m
  ELSE
    LET st  == t + scheduleAhead
        id  == FreeId(m)
        seg == [id |-> id, start |-> st, dur |-> m.p.samples, gen |-> m.gen,
                at |-> t, prevEnd |-> m.lastEnd, hi |-> m.hiStart]
    IN [m EXCEPT !.p.scheduledTime = st + m.p.samples,
                 !.p.scheduledBuffers = Append(@, id),
                 !.p.isPlaying = TRUE,
                 !.streaming = IF m.p.isPlaying THEN @ ELSE TRUE,
                 !.p.samples = 0,
                 !.pcm = <<>>,
                 !.sources = @ \cup {seg},
                 !.lastEnd = st + m.p.samples,
                 !.hiStart = IF st > @ THEN st ELSE @,
                 !.played = @ \o m.pcm,
                 !.sched = @ + m.p.samples]

\* flush with a slip: onPlayingChange is not called
flushNoNotify(m, t) ==
  IF ~m.p.audioCtx \/ m.p.samples = 0 THEN m
  ELSE
    LET st  == IF m.p.scheduledTime < t + scheduleAhead
               THEN t + scheduleAhead ELSE m.p.scheduledTime
        id  == FreeId(m)
        \* bufferSource, with what was true when it was started: the clock (at),
        \* the end of the segment before it (prevEnd) and the latest start before it (hi)
        seg == [id |-> id, start |-> st, dur |-> m.p.samples, gen |-> m.gen,
                at |-> t, prevEnd |-> m.lastEnd, hi |-> m.hiStart]
    IN [m EXCEPT !.p.scheduledTime = st + m.p.samples,
                 !.p.scheduledBuffers = Append(@, id),
                 !.p.isPlaying = TRUE,
                 !.p.samples = 0,
                 !.pcm = <<>>,
                 !.sources = @ \cup {seg},
                 !.lastEnd = st + m.p.samples,
                 !.hiStart = IF st > @ THEN st ELSE @,
                 !.played = @ \o m.pcm,
                 !.sched = @ + m.p.samples]

\* PCMPlayer.flush
flush(m, t) ==
  IF ~m.p.audioCtx \/ m.p.samples = 0 THEN m
  ELSE
    LET st  == IF m.p.scheduledTime < t + scheduleAhead
               THEN t + scheduleAhead ELSE m.p.scheduledTime
        id  == FreeId(m)
        \* bufferSource, with what was true when it was started: the clock (at),
        \* the end of the segment before it (prevEnd) and the latest start before it (hi)
        seg == [id |-> id, start |-> st, dur |-> m.p.samples, gen |-> m.gen,
                at |-> t, prevEnd |-> m.lastEnd, hi |-> m.hiStart]
    IN [m EXCEPT !.p.scheduledTime = st + m.p.samples,
                 !.p.scheduledBuffers = Append(@, id),
                 !.p.isPlaying = TRUE,
                 !.streaming = IF m.p.isPlaying THEN @ ELSE TRUE,
                 !.p.samples = 0,
                 !.pcm = <<>>,
                 !.sources = @ \cup {seg},
                 !.lastEnd = st + m.p.samples,
                 !.hiStart = IF st > @ THEN st ELSE @,
                 !.played = @ \o m.pcm,
                 !.sched = @ + m.p.samples]

\* audioCtx.resume(), the promise it returns being dropped: the context runs
\* again unless the browser refuses, and a refusal reaches no handler
resume(m) == IF m.p.locked THEN m ELSE [m EXCEPT !.p.state = "running"]

\* feed with a slip: in buffering mode the minimum buffer is not awaited
feedNoThreshold(m, data, t) ==
  LET m0 == IF ~m.p.audioCtx THEN init(m, t) ELSE m
      m1 == IF m0.p.state = "suspended" THEN resume(m0) ELSE m0
      m2 == [m1 EXCEPT !.p.samples = @ + Size(data), !.fed = @ + Size(data),
                       !.pcm = @ \o data]
      m3 == IF m2.p.isBuffering
            THEN flush([m2 EXCEPT !.p.isBuffering = FALSE], t)
            ELSE IF m2.p.samples >= chunkSize THEN flush(m2, t) ELSE m2
  IN IF m3.p.samples >= maxBufferSize THEN flush(m3, t) ELSE m3

\* feed with a slip: the new samples are put in front of the pending ones
feedPrepend(m, data, t) ==
  LET m0 == IF ~m.p.audioCtx THEN init(m, t) ELSE m
      m1 == IF m0.p.state = "suspended" THEN resume(m0) ELSE m0
      m2 == [m1 EXCEPT !.p.samples = @ + Size(data), !.fed = @ + Size(data),
                       !.pcm = data \o @]
      m3 == IF m2.p.isBuffering
            THEN IF m2.p.samples >= minBufferSize
                 THEN flush([m2 EXCEPT !.p.isBuffering = FALSE], t)
                 ELSE m2
            ELSE IF m2.p.samples >= chunkSize THEN flush(m2, t) ELSE m2
  IN IF m3.p.samples >= maxBufferSize THEN flush(m3, t) ELSE m3

\* feed with a slip: in streaming mode a buffer of exactly the chunk size is
\* held back
feedOverChunk(m, data, t) ==
  LET m0 == IF ~m.p.audioCtx THEN init(m, t) ELSE m
      m1 == IF m0.p.state = "suspended" THEN resume(m0) ELSE m0
      m2 == [m1 EXCEPT !.p.samples = @ + Size(data), !.fed = @ + Size(data),
                       !.pcm = @ \o data]
      m3 == IF m2.p.isBuffering
            THEN IF m2.p.samples >= minBufferSize
                 THEN flush([m2 EXCEPT !.p.isBuffering = FALSE], t)
                 ELSE m2
            ELSE IF m2.p.samples > chunkSize THEN flush(m2, t) ELSE m2
  IN IF m3.p.samples >= maxBufferSize THEN flush(m3, t) ELSE m3

\* PCMPlayer.feed
feed(m, data, t) ==
  LET m0 == IF ~m.p.audioCtx THEN init(m, t) ELSE m
      m1 == IF m0.p.state = "suspended" THEN resume(m0) ELSE m0
      m2 == [m1 EXCEPT !.p.samples = @ + Size(data), !.fed = @ + Size(data),
                       !.pcm = @ \o data]
      m3 == IF m2.p.isBuffering
            THEN IF m2.p.samples >= minBufferSize
                 THEN flush([m2 EXCEPT !.p.isBuffering = FALSE], t)
                 ELSE m2
            ELSE IF m2.p.samples >= chunkSize THEN flush(m2, t) ELSE m2
  IN IF m3.p.samples >= maxBufferSize THEN flush(m3, t) ELSE m3

\* checkPlaybackEnd with a slip: the timer before is cleared and none is set
checkPlaybackEndNoTimer(ts, g, t) ==
  {x \in ts : ~(x.kind = "endCheck" /\ x.gen = g)}

\* PCMPlayer.checkPlaybackEnd, of the player object of generation g
checkPlaybackEnd(ts, g, t) ==
  {x \in ts : ~(x.kind = "endCheck" /\ x.gen = g)}
    \cup {[kind |-> "endCheck", at |-> t + Ms(EndCheckMs), gen |-> g]}

Range(s) == {s[i] : i \in DOMAIN s}

\* stop with a slip: the cursor is left where it was
stopKeepCursor(m, t) ==
  LET ts1 == {x \in m.timers : ~(x.kind = "endCheck" /\ x.gen = m.gen)}
      ts2 == IF m.p.audioCtx
             THEN ts1 \cup {[kind |-> "gain", at |-> t + Ms(GainResetMs), gen |-> m.gen]}
             ELSE ts1
  IN [m EXCEPT !.timers = ts2,
               !.sources = {s \in @ : s.id \notin Range(m.p.scheduledBuffers)},
               !.cancelled = @ \cup {[id |-> s.id, gen |-> s.gen] :
                                      s \in {x \in m.sources :
                                              x.id \in Range(m.p.scheduledBuffers)}},
               !.p.scheduledBuffers = <<>>,
               !.p.faded = IF m.p.audioCtx THEN TRUE ELSE @,
               !.p.samples = 0,
               !.p.isPlaying = FALSE,
               !.p.isBuffering = TRUE,
               !.streaming = FALSE,
               !.lastEnd = None, !.fed = 0, !.sched = 0,
               !.pcm = <<>>, !.played = <<>>, !.arrived = <<>>]

\* PCMPlayer.stop
stop(m, t) ==
  LET ts1 == {x \in m.timers : ~(x.kind = "endCheck" /\ x.gen = m.gen)}
      ts2 == IF m.p.audioCtx
             THEN ts1 \cup {[kind |-> "gain", at |-> t + Ms(GainResetMs), gen |-> m.gen]}
             ELSE ts1
  IN [m EXCEPT !.timers = ts2,
               !.sources = {s \in @ : s.id \notin Range(m.p.scheduledBuffers)},
               !.cancelled = @ \cup {[id |-> s.id, gen |-> s.gen] :
                                      s \in {x \in m.sources :
                                              x.id \in Range(m.p.scheduledBuffers)}},
               !.p.scheduledBuffers = <<>>,
               !.p.faded = IF m.p.audioCtx THEN TRUE ELSE @,
               !.p.samples = 0,
               !.p.scheduledTime = IF m.p.audioCtx THEN t ELSE 0,
               !.p.isPlaying = FALSE,
               !.p.isBuffering = TRUE,
               !.streaming = FALSE,
               !.lastEnd = None, !.fed = 0, !.sched = 0,
               !.pcm = <<>>, !.played = <<>>, !.arrived = <<>>]

\* destroy with a slip: stop() is not called
destroyNoStop(m, t) == [m EXCEPT !.p.audioCtx = FALSE]

\* PCMPlayer.destroy
destroy(m, t) == [stop(m, t) EXCEPT !.p.audioCtx = FALSE]

\* the player object of generation g is the one pcmPlayerRef holds
Live(g) == pcmPlayerRef /\ g = gen

----------------------------------------------------------------------------
Init ==
  /\ now = 0
  /\ connected = FALSE
  /\ status = "Click to start voice chat"
  /\ config = DefaultConfig
  /\ pcmPlayerRef = FALSE
  /\ gen = 0
  /\ player = NewPlayer
  /\ timers = {}
  /\ isStreamingRef = FALSE
  /\ speechStartedAtRef = None
  /\ pendingInterruptionRef = FALSE
  /\ debounceTimer = NoTimer
  /\ debounceTimers = {}
  /\ superseded = FALSE
  /\ interrupted = FALSE
  /\ sources = {}
  /\ cancelled = {}
  /\ lastEnd = None
  /\ hiStart = 0
  /\ fed = 0
  /\ sched = 0
  /\ pcm = <<>>
  /\ played = <<>>
  /\ arrived = <<>>
  /\ nFeeds = 0
  /\ quiet = FALSE
  /\ silent = FALSE
  /\ speechBeganAt = None
  /\ lastOp = "other"
  /\ lastStop = FALSE
  /\ capture = NewCapture
  /\ nInput = 0
  /\ nCalls = 0

playerVars == <<pcmPlayerRef, gen, player, sources, cancelled, lastEnd, hiStart, fed, sched, timers,
                isStreamingRef, pcm, played, arrived>>
arbiterVars == <<speechStartedAtRef, pendingInterruptionRef, debounceTimer, debounceTimers,
                 quiet, silent,
                 speechBeganAt>>
\* the state of the component; the capture worklet reads and writes none of it
appVars == <<now, connected, status, config, playerVars, arbiterVars, superseded, interrupted,
             nFeeds, lastOp, lastStop>>

\* writes the result m of the PCMPlayer methods back to the variables
Commit(m) ==
  /\ pcmPlayerRef' = m.ref
  /\ gen' = m.gen
  /\ player' = m.p
  /\ sources' = m.sources
  /\ cancelled' = m.cancelled
  /\ lastEnd' = m.lastEnd
  /\ hiStart' = m.hiStart
  /\ fed' = m.fed
  /\ sched' = m.sched
  /\ timers' = m.timers
  /\ isStreamingRef' = m.streaming
  /\ pcm' = m.pcm
  /\ played' = m.played
  /\ arrived' = m.arrived

\* history: handler op has run, whether it called stopAllAudio, and whether
\* it replaced a running debounce timer by a new one
Ran(op, stopCalled) ==
  /\ lastOp' = op
  /\ lastStop' = stopCalled
  /\ superseded' = (op = "speech_started" /\ debounceTimer.armed /\ debounceTimer' # debounceTimer)
  /\ interrupted' = (op # "speech_started" /\ (interrupted \/ stopCalled))

----------------------------------------------------------------------------
(* Session lifecycle *)

\* startSession, through ws.onopen: the connection opens and the backend's
\* interruption_config is merged into interruptionConfigRef
StartSessionFrom(cs) ==
  /\ ~connected
  /\ connected' = TRUE
  /\ \E c \in cs : config' = c
  /\ status' = "Configuring session..."
  /\ Ran("other", FALSE)
  /\ UNCHANGED <<now, playerVars, arbiterVars, nFeeds>>
  /\ UNCHANGED captureVars

StartSession == StartSessionFrom(Configs)

\* stopSession with a slip: pcmPlayerRef.current is not set to null
stopSessionKeepRef(m, t) == IF m.ref THEN destroy(m, t) ELSE m

\* stopSession. Once pcmPlayerRef.current is null the destroyed object is out of
\* reach of every handler but its own callbacks, which find audioCtx null: its
\* fields are written back as a fresh object's.
stopSession(m, t) ==
  LET m1 == IF m.ref THEN destroy(m, t) ELSE m
  IN [m1 EXCEPT !.ref = FALSE, !.p = NewPlayer, !.streaming = FALSE,
                !.lastEnd = None, !.hiStart = 0, !.fed = 0, !.sched = 0,
                !.pcm = <<>>, !.played = <<>>, !.arrived = <<>>]

StopSession ==
  /\ debounceTimer' = NoTimer
  /\ debounceTimers' = clearTimeout(debounceTimers, debounceTimer)
  /\ superseded' = FALSE
  /\ interrupted' = FALSE
  /\ pendingInterruptionRef' = FALSE
  /\ speechStartedAtRef' = None
  /\ quiet' = FALSE
  /\ silent' = FALSE
  /\ speechBeganAt' = None
  /\ connected' = FALSE
  /\ status' = "Session ended. Click to restart."
  /\ Commit(stopSession(M, now))
  /\ lastOp' = IF lastOp \in {"stopSession", "stopSessionAgain"}
               THEN "stopSessionAgain" ELSE "stopSession"
  /\ lastStop' = FALSE
  /\ UNCHANGED <<now, config, nFeeds>>
  /\ UNCHANGED captureVars

----------------------------------------------------------------------------
(* handleMessage: audio *)

\* processAudioChunk: a player is created when pcmPlayerRef.current is null;
\* the frame is decoded and fed. An exception of the decoding leaves
\* processAudioChunk before feed and is caught by handleMessage.
processAudioChunk(m, frame, t) ==
  LET m1 == IF m.ref THEN m ELSE [m EXCEPT !.ref = TRUE, !.p = NewPlayer, !.gen = @ + 1]
  IN IF Decodes(frame) THEN feed(m1, int16ToFloat32(Int16Array(frame)), t) ELSE m1

\* the frame that carries the array of 16-bit samples a, in little-endian
\* two's complement, and after it `extra` stray bytes
Wire(a, extra, b64ok) ==
  [b64ok |-> b64ok, extra |-> extra,
   units |-> [i \in DOMAIN a |->
                LET u == IF a[i].v < 0 THEN a[i].v + 2^16 ELSE a[i].v
                IN [lo |-> u % 256, hi |-> u \div 256, n |-> a[i].n]]]

\* 'response.output_audio.delta': if (data.delta) processAudioChunk(data.delta);
\* the empty text is the frame of no bytes
onAudioDelta(m, frame, t) ==
  IF frame.b64ok /\ frame.units = <<>> /\ frame.extra = 0
  THEN m ELSE processAudioChunk(m, frame, t)

\* 'response.output_audio.delta' with a well-formed frame of a samples (an
\* array), the frame being one of the first k of the run
AudioFrameUpTo(k, a) ==
  /\ connected
  /\ nFeeds < k
  /\ nFeeds' = nFeeds + 1
  /\ Commit(onAudioDelta([M EXCEPT !.arrived = @ \o a], Wire(a, 0, TRUE), now))
  /\ Ran("feed", FALSE)
  /\ UNCHANGED <<now, connected, config, status, arbiterVars>>
  /\ UNCHANGED captureVars

\* 'response.output_audio.delta' with a frame of n samples, each of them the
\* number of the frame
AudioDeltaUpTo(k, n) == AudioFrameUpTo(k, <<[v |-> nFeeds + 1, n |-> n]>>)

AudioDelta(n) == AudioDeltaUpTo(MaxFeeds, n)

\* 'response.output_audio.delta' with a frame that does not decode: its text
\* is not base64, or its bytes are those of a and one byte more
MalformedDelta(k, a, b64ok) ==
  /\ connected
  /\ nFeeds < k
  /\ nFeeds' = nFeeds + 1
  /\ Commit(onAudioDelta(M, Wire(a, IF b64ok THEN 1 ELSE 0, b64ok), now))
  /\ Ran("badFrame", FALSE)
  /\ UNCHANGED <<now, connected, config, status, arbiterVars>>
  /\ UNCHANGED captureVars

\* flushAudioBuffer with a slip: a remainder below the startup buffer is kept
flushAudioBufferIfEnough(m, t) ==
  IF m.ref /\ m.p.samples >= minBufferSize THEN flush(m, t) ELSE m

\* flushAudioBuffer
flushAudioBuffer(m, t) == IF m.ref THEN flush(m, t) ELSE m

\* 'response.done'
ResponseDone ==
  /\ connected
  /\ Commit(flushAudioBuffer(M, now))
  /\ Ran("flush", FALSE)
  /\ UNCHANGED <<now, connected, config, status, arbiterVars, nFeeds>>
  /\ UNCHANGED captureVars

\* resetAudioState with a slip: the player is stopped, scheduled segments and all
resetAudioStateStop(m, t) == IF m.ref THEN stop(m, t) ELSE m

\* resetAudioState
resetAudioState(m, t) ==
  IF m.ref
  THEN [m EXCEPT !.p.samples = 0,
                 !.p.isBuffering = TRUE,
                 !.p.scheduledTime = IF m.p.audioCtx THEN t ELSE @,
                 !.lastEnd = None, !.fed = 0, !.sched = 0,
                 !.pcm = <<>>, !.played = <<>>, !.arrived = <<>>]
  ELSE m

\* 'response.created'
ResponseCreated ==
  /\ connected
  /\ Commit(resetAudioState(M, now))
  /\ Ran("reset", FALSE)
  /\ UNCHANGED <<now, connected, config, status, arbiterVars, nFeeds>>
  /\ UNCHANGED captureVars

----------------------------------------------------------------------------
(* Hardware timeline and timer callbacks *)

\* the elements of sequence s other than x, in order
Without(s, x) == SelectSeq(s, LAMBDA y : y # x)

\* source s has played to its end
CanEnd(s) == now >= s.start + s.dur

\* onended with a slip: the oldest outstanding source is removed, whichever
\* source has ended
onendedShift(p, ts, id, g, t) ==
  [p |-> IF Live(g) /\ p.scheduledBuffers # <<>>
         THEN [p EXCEPT !.scheduledBuffers = Tail(@)] ELSE p,
   timers |-> checkPlaybackEnd(ts, g, t)]

\* bufferSource.onended of a source of generation g with identity id
onended(p, ts, id, g, t) ==
  [p |-> IF Live(g) THEN [p EXCEPT !.scheduledBuffers = Without(@, id)] ELSE p,
   timers |-> checkPlaybackEnd(ts, g, t)]

\* the end notification of source s, which played to its end
OnEnded(s) ==
  /\ s \in sources
  /\ CanEnd(s)
  /\ sources' = sources \ {s}
  /\ player' = onended(player, timers, s.id, s.gen, now).p
  /\ timers' = onended(player, timers, s.id, s.gen, now).timers
  /\ Ran("other", FALSE)
  /\ UNCHANGED <<now, connected, config, status, pcmPlayerRef, gen, cancelled, lastEnd,
                 hiStart, fed, sched, pcm, played, arrived, isStreamingRef, arbiterVars, nFeeds>>
  /\ UNCHANGED captureVars

\* the end notification of source c, which stop() stopped
OnEndedCancelled(c) ==
  /\ c \in cancelled
  /\ cancelled' = cancelled \ {c}
  /\ player' = onended(player, timers, c.id, c.gen, now).p
  /\ timers' = onended(player, timers, c.id, c.gen, now).timers
  /\ Ran("other", FALSE)
  /\ UNCHANGED <<now, connected, config, status, pcmPlayerRef, gen, sources, lastEnd,
                 hiStart, fed, sched, pcm, played, arrived, isStreamingRef, arbiterVars, nFeeds>>
  /\ UNCHANGED captureVars

\* the end-check callback's test with a slip: the outstanding segments are
\* not looked at
PlaybackOverAnyway(p, t) ==
  /\ p.audioCtx
  /\ p.samples = 0
  /\ t >= p.scheduledTime - Ms(EndSlackMs)

\* the playback is over when the end-check timer fires
PlaybackOver(p, t) ==
  /\ p.audioCtx
  /\ Len(p.scheduledBuffers) = 0
  /\ p.samples = 0
  /\ t >= p.scheduledTime - Ms(EndSlackMs)

\* the callback of checkPlaybackEnd's timer x
EndCheckFire(x) ==
  /\ x \in timers
  /\ x.kind = "endCheck"
  /\ now >= x.at
  /\ timers' = timers \ {x}
  /\ IF Live(x.gen) /\ PlaybackOver(player, now)
     THEN /\ player' = [player EXCEPT !.isPlaying = FALSE, !.isBuffering = TRUE]
          /\ isStreamingRef' = FALSE
     ELSE UNCHANGED <<player, isStreamingRef>>
  /\ Ran("other", FALSE)
  /\ UNCHANGED <<now, connected, config, status, pcmPlayerRef, gen, sources, cancelled,
                 lastEnd, hiStart, fed, sched, pcm, played, arrived, arbiterVars, nFeeds>>
  /\ UNCHANGED captureVars

\* the callback of stop()'s gain reset timer x
GainFire(x) ==
  /\ x \in timers
  /\ x.kind = "gain"
  /\ now >= x.at
  /\ timers' = timers \ {x}
  /\ player' = IF Live(x.gen) /\ player.audioCtx
               THEN [player EXCEPT !.faded = FALSE] ELSE player
  /\ Ran("other", FALSE)
  /\ UNCHANGED <<now, connected, config, status, pcmPlayerRef, gen, sources, cancelled,
                 lastEnd, hiStart, fed, sched, pcm, played, arrived, isStreamingRef,
                 arbiterVars, nFeeds>>
  /\ UNCHANGED captureVars

\* a callback of the hardware timeline or of a PCMPlayer timer is due
Due ==
  \/ \E s \in sources : CanEnd(s)
  \/ cancelled # {}
  \/ \E x \in timers : now >= x.at

\* the clock advances; the event loop delivers the callbacks that are due
\* before another StepMs milliseconds pass
Tick ==
  /\ now < MaxClock * Ms(StepMs)
  /\ ~Due
  /\ now' = now + Ms(StepMs)
  /\ Ran("other", FALSE)
  /\ UNCHANGED <<connected, config, status, playerVars, arbiterVars, nFeeds>>
  /\ UNCHANGED captureVars

----------------------------------------------------------------------------
(* handleMessage: interruption arbiter *)

\* stopAllAudio
stopAllAudio(m, t) ==
  [(IF m.ref THEN stop(m, t) ELSE m) EXCEPT !.streaming = FALSE]

\* the debounce callback's test with a slip: the threshold is not halved
LongEnoughFull(t, startedAt, min) == (t - startedAt) >= Ms(min)

\* the debounce callback's test with a slip: the speech is taken as long
\* enough whenever the timer fires
LongEnoughAnyway(t, startedAt, min) == t >= startedAt

\* the debounce callback's test: speechDuration >= config.min_speech_duration_ms / 2,
\* with speechDuration = Date.now() - speechStartedAtRef.current
LongEnoughAtFire(t, startedAt, min) == 2 * (t - startedAt) >= Ms(min)

\* speech_started with a slip: the interruption is made pending and the timer
\* is set whether the AI speaks or not
SpeechStartedAlways ==
  /\ connected
  /\ speechStartedAtRef' = now
  /\ pendingInterruptionRef' = TRUE
  /\ debounceTimer' = setTimeout(now, config)
  /\ debounceTimers' = clearTimeout(debounceTimers, debounceTimer) \cup {setTimeout(now, config)}
  /\ quiet' = isStreamingRef
  /\ silent' = (~isStreamingRef /\ ~pendingInterruptionRef)
  /\ speechBeganAt' = now
  /\ Ran("speech_started", FALSE)
  /\ UNCHANGED <<now, connected, config, status, playerVars, nFeeds>>
  /\ UNCHANGED captureVars

\* speech_started with a slip: the timer already running is left to fire
SpeechStartedNoClear ==
  /\ connected
  /\ speechStartedAtRef' = now
  /\ IF isStreamingRef
     THEN /\ pendingInterruptionRef' = TRUE
          /\ debounceTimer' = setTimeout(now, config)
          /\ debounceTimers' =
               debounceTimers \cup {setTimeout(now, config)}
          /\ quiet' = TRUE
          /\ silent' = FALSE
     ELSE /\ UNCHANGED <<pendingInterruptionRef, debounceTimer, debounceTimers>>
          /\ quiet' = FALSE
          /\ silent' = ~pendingInterruptionRef
  /\ speechBeganAt' = IF pendingInterruptionRef' THEN now ELSE None
  /\ Ran("speech_started", FALSE)
  /\ UNCHANGED <<now, connected, config, status, playerVars, nFeeds>>
  /\ UNCHANGED captureVars

\* 'input_audio_buffer.speech_started'
SpeechStarted ==
  /\ connected
  /\ speechStartedAtRef' = now
  /\ IF isStreamingRef
     THEN /\ pendingInterruptionRef' = TRUE
          /\ debounceTimer' = setTimeout(now, config)
          /\ debounceTimers' =
               clearTimeout(debounceTimers, debounceTimer) \cup {setTimeout(now, config)}
          /\ quiet' = TRUE
          /\ silent' = FALSE
     ELSE /\ UNCHANGED <<pendingInterruptionRef, debounceTimer, debounceTimers>>
          /\ quiet' = FALSE
          /\ silent' = ~pendingInterruptionRef
  /\ speechBeganAt' = IF pendingInterruptionRef' THEN now ELSE None
  /\ Ran("speech_started", FALSE)
  /\ UNCHANGED <<now, connected, config, status, playerVars, nFeeds>>
  /\ UNCHANGED captureVars

\* the debounce callback with a slip: the pending flag is cleared only when
\* the playback is stopped
DebounceFireKeepPending ==
  \E x \in debounceTimers :
  /\ now >= x.at
  /\ debounceTimers' = debounceTimers \ {x}
  /\ debounceTimer' = (IF x = debounceTimer THEN NoTimer ELSE debounceTimer)
  /\ IF /\ pendingInterruptionRef
        /\ speechStartedAtRef # None
        /\ LongEnoughAtFire(now, speechStartedAtRef, x.min)
     THEN /\ Commit(stopAllAudio(M, now))
          /\ Ran("debounce", TRUE)
          /\ pendingInterruptionRef' = FALSE
     ELSE /\ UNCHANGED <<playerVars, pendingInterruptionRef>>
          /\ Ran("debounce", FALSE)
  /\ quiet' = FALSE
  /\ speechBeganAt' = None
  /\ UNCHANGED silent
  /\ UNCHANGED <<now, connected, config, status, speechStartedAtRef, nFeeds>>
  /\ UNCHANGED captureVars

\* the debounce callback with a slip: the pending flag is left set
DebounceFireStillPending ==
  \E x \in debounceTimers :
  /\ now >= x.at
  /\ debounceTimers' = debounceTimers \ {x}
  /\ debounceTimer' = (IF x = debounceTimer THEN NoTimer ELSE debounceTimer)
  /\ IF /\ pendingInterruptionRef
        /\ speechStartedAtRef # None
        /\ LongEnoughAtFire(now, speechStartedAtRef, x.min)
     THEN /\ Commit(stopAllAudio(M, now))
          /\ Ran("debounce", TRUE)
     ELSE /\ UNCHANGED playerVars
          /\ Ran("debounce", FALSE)
  /\ UNCHANGED pendingInterruptionRef
  /\ quiet' = FALSE
  /\ speechBeganAt' = None
  /\ UNCHANGED silent
  /\ UNCHANGED <<now, connected, config, status, speechStartedAtRef, nFeeds>>
  /\ UNCHANGED captureVars

\* the callback of the debounce timer set by speech_started
DebounceFire ==
  \E x \in debounceTimers :
  /\ now >= x.at
  /\ debounceTimers' = debounceTimers \ {x}
  /\ debounceTimer' = (IF x = debounceTimer THEN NoTimer ELSE debounceTimer)
  /\ IF /\ pendingInterruptionRef
        /\ speechStartedAtRef # None
        /\ LongEnoughAtFire(now, speechStartedAtRef, x.min)
     THEN /\ Commit(stopAllAudio(M, now))
          /\ Ran("debounce", TRUE)
     ELSE /\ UNCHANGED playerVars
          /\ Ran("debounce", FALSE)
  /\ pendingInterruptionRef' = FALSE
  /\ quiet' = FALSE
  /\ speechBeganAt' = None
  /\ UNCHANGED silent
  /\ UNCHANGED <<now, connected, config, status, speechStartedAtRef, nFeeds>>
  /\ UNCHANGED captureVars

\* speech_stopped's noise test with a slip: the timer's halved threshold is used
TooBriefHalf(t, startedAt, min) ==
  2 * (IF startedAt # None THEN t - startedAt ELSE 0) < Ms(min)

\* speech_stopped's noise test with a slip: a quarter of the threshold is used
TooBriefQuarter(t, startedAt, min) ==
  4 * (IF startedAt # None THEN t - startedAt ELSE 0) < Ms(min)

\* speech_stopped's noise test: speechDuration < config.min_speech_duration_ms,
\* with speechDuration 0 when no speech_started timestamp is recorded
TooBrief(t, startedAt, min) ==
  (IF startedAt # None THEN t - startedAt ELSE 0) < Ms(min)

\* speech_stopped with a slip: the playback is stopped whenever the AI
\* speaks, an interruption pending or not
SpeechStoppedAnyway ==
  /\ connected
  /\ IF /\ pendingInterruptionRef
        /\ TooBrief(now, speechStartedAtRef, config.min_speech_duration_ms)
     THEN /\ pendingInterruptionRef' = FALSE
          /\ debounceTimer' = NoTimer
          /\ debounceTimers' = clearTimeout(debounceTimers, debounceTimer)
          /\ Ran("speech_stopped", FALSE)
          /\ UNCHANGED <<playerVars, speechStartedAtRef>>
     ELSE /\ IF isStreamingRef
             THEN /\ Commit(stopAllAudio(M, now))
                  /\ pendingInterruptionRef' = FALSE
                  /\ debounceTimer' = NoTimer
                  /\ debounceTimers' = clearTimeout(debounceTimers, debounceTimer)
                  /\ Ran("speech_stopped", TRUE)
             ELSE /\ UNCHANGED <<playerVars, pendingInterruptionRef, debounceTimer, debounceTimers>>
                  /\ Ran("speech_stopped", FALSE)
          /\ speechStartedAtRef' = None
  /\ quiet' = FALSE
  /\ speechBeganAt' = IF pendingInterruptionRef' THEN speechBeganAt ELSE None
  /\ UNCHANGED silent
  /\ UNCHANGED <<now, connected, config, status, nFeeds>>
  /\ UNCHANGED captureVars

\* 'input_audio_buffer.speech_stopped'
SpeechStopped ==
  /\ connected
  /\ IF /\ pendingInterruptionRef
        /\ TooBrief(now, speechStartedAtRef, config.min_speech_duration_ms)
     THEN \* noise: cancel the interruption and break
          /\ pendingInterruptionRef' = FALSE
          /\ debounceTimer' = NoTimer
          /\ debounceTimers' = clearTimeout(debounceTimers, debounceTimer)
          /\ Ran("speech_stopped", FALSE)
          /\ UNCHANGED <<playerVars, speechStartedAtRef>>
     ELSE /\ IF pendingInterruptionRef /\ isStreamingRef
             THEN /\ Commit(stopAllAudio(M, now))
                  /\ pendingInterruptionRef' = FALSE
                  /\ debounceTimer' = NoTimer
                  /\ debounceTimers' = clearTimeout(debounceTimers, debounceTimer)
                  /\ Ran("speech_stopped", TRUE)
             ELSE /\ UNCHANGED <<playerVars, pendingInterruptionRef, debounceTimer, debounceTimers>>
                  /\ Ran("speech_stopped", FALSE)
          /\ speechStartedAtRef' = None
  /\ quiet' = FALSE
  /\ speechBeganAt' = IF pendingInterruptionRef' THEN speechBeganAt ELSE None
  /\ UNCHANGED silent
  /\ UNCHANGED <<now, connected, config, status, nFeeds>>
  /\ UNCHANGED captureVars

-----------------------------------------------------------------------------
(* AudioCaptureProcessor (frontend/public/audio-processor.js) *)

\* The input samples are numbered 1, 2, ... in arrival order.  An array of
\* samples is a sequence of runs [first, n]: the n samples numbered first,
\* first + 1, ...; first = 0 stands for the zeros of a new Float32Array.

\* the first c elements of array b
RECURSIVE TakeRuns(_, _)
TakeRuns(b, c) ==
  IF c = 0 \/ b = <<>> THEN <<>>
  ELSE IF Head(b).n <= c THEN <<Head(b)>> \o TakeRuns(Tail(b), c - Head(b).n)
  ELSE <<[Head(b) EXCEPT !.n = c]>>

\* array b without its first c elements
RECURSIVE DropRuns(_, _)
DropRuns(b, c) ==
  IF c = 0 \/ b = <<>> THEN b
  ELSE IF Head(b).n <= c THEN DropRuns(Tail(b), c - Head(b).n)
  ELSE <<[first |-> IF Head(b).first = 0 THEN 0 ELSE Head(b).first + c,
          n |-> Head(b).n - c]>> \o Tail(b)

\* this.buffer[this.bufferIndex++] = channelData[i], for the w samples
\* numbered k, k + 1, ... and bufferIndex i at the first of them
store(b, i, k, w) == TakeRuns(b, i) \o <<[first |-> k, n |-> w]>> \o DropRuns(b, i + w)

\* the loop of process() with a slip: the rest of the input is dropped once a
\* message has been posted
processBreak(c, k, n) ==
  IF n = 0 THEN c
  ELSE
    LET room == bufferSize - c.bufferIndex
        w    == IF n < room THEN n ELSE room
        b1   == store(c.buffer, c.bufferIndex, k, w)
    IN IF c.bufferIndex + w >= bufferSize
       THEN [buffer |-> b1, bufferIndex |-> 0, posted |-> Append(c.posted, b1)]
       ELSE [c EXCEPT !.buffer = b1, !.bufferIndex = @ + w]

\* the loop of process() over the n input samples numbered k, k + 1, ...: the
\* samples up to the one that fills the buffer are stored, the copy of the
\* buffer is posted and bufferIndex is reset, and the loop goes on
RECURSIVE process(_, _, _)
process(c, k, n) ==
  IF n = 0 THEN c
  ELSE
    LET room == bufferSize - c.bufferIndex
        w    == IF n < room THEN n ELSE room
        b1   == store(c.buffer, c.bufferIndex, k, w)
    IN IF c.bufferIndex + w >= bufferSize
       THEN process([buffer |-> b1, bufferIndex |-> 0, posted |-> Append(c.posted, b1)],
                    k + w, n - w)
       ELSE [c EXCEPT !.buffer = b1, !.bufferIndex = @ + w]

\* process(inputs) with a channel of n samples
Process(n) ==
  /\ nCalls < MaxCaptureCalls
  /\ nCalls' = nCalls + 1
  /\ capture' = process(capture, nInput + 1, n)
  /\ nInput' = nInput + n
  /\ UNCHANGED appVars

\* process(inputs) with no input, or an input without a channel
ProcessNoInput ==
  /\ nCalls < MaxCaptureCalls
  /\ nCalls' = nCalls + 1
  /\ UNCHANGED <<capture, nInput>>
  /\ UNCHANGED appVars

----------------------------------------------------------------------------
Next ==
  \/ StartSession
  \/ StopSession
  \/ \E n \in ChunkSizes : AudioDelta(n)
  \/ ResponseDone
  \/ ResponseCreated
  \/ \E s \in sources : OnEnded(s)
  \/ \E c \in cancelled : OnEndedCancelled(c)
  \/ \E x \in timers : EndCheckFire(x)
  \/ \E x \in timers : GainFire(x)
  \/ SpeechStarted
  \/ DebounceFire
  \/ SpeechStopped
  \/ Tick

Spec == Init /\ [][Next]_vars

\* The playback engine alone, in one session in which the user never speaks
\* while audio plays: frames, response boundaries, end notifications, the
\* end-check timer and the clock.
PlaybackNext ==
  \/ StartSession
  \/ \E n \in ChunkSizes : AudioDeltaUpTo(MaxPlaybackFeeds, n)
  \/ ResponseDone
  \/ ResponseCreated
  \/ \E s \in sources : OnEnded(s)
  \/ \E x \in timers : EndCheckFire(x)
  \/ Tick

PlaybackSpec == Init /\ [][PlaybackNext]_vars

\* The engine left to itself: the messages of one session arrive before the
\* clock reaches Horizon and none after it, while the clock goes on as long
\* as a callback is still to come. The event loop delivers every callback
\* that is due.
Horizon == MaxClock * Ms(StepMs)

\* a segment is still playing or a timer is set for a later time
NotYetDue ==
  \/ \E s \in sources : ~CanEnd(s)
  \/ \E x \in timers : now < x.at
  \/ debounceTimer.armed /\ now < debounceTimer.at

LateTick ==
  /\ now >= Horizon
  /\ ~Due
  /\ NotYetDue
  /\ now' = now + Ms(StepMs)
  /\ Ran("other", FALSE)
  /\ UNCHANGED <<connected, config, status, playerVars, arbiterVars, nFeeds>>
  /\ UNCHANGED captureVars

Messages ==
  \/ StartSession
  \/ \E n \in ChunkSizes : AudioDelta(n)
  \/ ResponseDone
  \/ SpeechStarted
  \/ SpeechStopped

LiveNext ==
  \/ now < Horizon /\ Messages
  \/ \E s \in sources : OnEnded(s)
  \/ \E c \in cancelled : OnEndedCancelled(c)
  \/ \E x \in timers : EndCheckFire(x)
  \/ \E x \in timers : GainFire(x)
  \/ DebounceFire
  \/ Tick
  \/ LateTick

LiveSpec ==
  /\ Init
  /\ [][LiveNext]_vars
  /\ WF_vars(\E s \in sources : OnEnded(s))
  /\ WF_vars(\E c \in cancelled : OnEndedCancelled(c))
  /\ WF_vars(\E x \in timers : EndCheckFire(x))
  /\ WF_vars(\E x \in timers : GainFire(x))
  /\ WF_vars(DebounceFire)
  /\ WF_vars(Tick)
  /\ WF_vars(LateTick)

\* The decoding of frames, in one session: frames of a few samples each, well
\* formed or not, and response boundaries.
DecodeNext ==
  \/ StartSession
  \/ \E a \in Arrays : AudioFrameUpTo(MaxDecodeFeeds, a)
  \/ \E a \in Arrays : MalformedDelta(MaxDecodeFeeds, a, TRUE)
  \/ MalformedDelta(MaxDecodeFeeds, <<>>, FALSE)
  \/ ResponseDone

DecodeSpec == Init /\ [][DecodeNext]_vars

\* The engine with a hardware timeline the browser may suspend, in one session
\* in which the user never speaks: the suspended context's clock stands
\* still, and so do the runs considered here until it runs again.
Suspend(locked) ==
  /\ pcmPlayerRef
  /\ player.audioCtx
  /\ player.state = "running"
  /\ player' = [player EXCEPT !.state = "suspended", !.locked = locked]
  /\ Ran("other", FALSE)
  /\ UNCHANGED <<now, connected, config, status, pcmPlayerRef, gen, sources, cancelled,
                 lastEnd, hiStart, fed, sched, pcm, played, arrived, timers,
                 isStreamingRef, arbiterVars, nFeeds>>
  /\ UNCHANGED captureVars

SuspendNext ==
  \/ StartSession
  \/ \E n \in ChunkSizes : AudioDeltaUpTo(MaxSuspendFeeds, n)
  \/ ResponseDone
  \/ \E locked \in BOOLEAN : Suspend(locked)
  \/ \E s \in sources : OnEnded(s)
  \/ \E x \in timers : EndCheckFire(x)
  \/ player.state = "running" /\ Tick

SuspendSpec == Init /\ [][SuspendNext]_vars

\* The buffering of frames, in one session and at one instant of the clock:
\* frames whose sizes meet the thresholds of feed exactly, and response
\* boundaries.
BufferNext ==
  \/ StartSession
  \/ \E n \in BufferSizes : AudioDeltaUpTo(MaxBufferFeeds, n)
  \/ ResponseDone
  \/ ResponseCreated

BufferSpec == Init /\ [][BufferNext]_vars

\* The interruption arbiter, in one session with any of ArbiterConfigs: frames,
\* speech events, the debounce timer, end notifications, the PCMPlayer timers
\* and the clock.
ArbiterNext ==
  \/ StartSessionFrom(ArbiterConfigs)
  \/ \E n \in ChunkSizes : AudioDeltaUpTo(MaxArbiterFeeds, n)
  \/ \E s \in sources : OnEnded(s)
  \/ \E c \in cancelled : OnEndedCancelled(c)
  \/ \E x \in timers : EndCheckFire(x)
  \/ \E x \in timers : GainFire(x)
  \/ SpeechStarted
  \/ DebounceFire
  \/ SpeechStopped
  \/ Tick

ArbiterSpec == Init /\ [][ArbiterNext]_vars

\* The capture worklet alone: the audio thread calls process() with inputs of
\* any length, or with none.
CaptureNext ==
  \/ \E n \in CaptureSizes : Process(n)
  \/ ProcessNoInput

CaptureSpec == Init /\ [][CaptureNext]_vars

----------------------------------------------------------------------------
(* Properties *)

\* the buffer source with identity id
Src(id) == CHOOSE s \in sources : s.id = id

\* C1. Sample conservation: between resets and interruptions the samples of
\* the scheduled segments and the pending ones add up to the samples fed, and
\* after an explicit flush nothing is pending.
C1_SampleConservation ==
  /\ fed = sched + player.samples
  /\ lastOp = "flush" => player.samples = 0

\* two one-sample frames, then response.done: one segment of two samples
C1_Witness ==
  /\ lastOp = "flush"
  /\ fed = 2
  /\ sched = 2
  /\ \E s \in sources : s.dur = 2

\* C2 as stated. Contiguity: within one utterance every segment starts exactly
\* where the segment before it ends.
C2_Contiguity ==
  \A s \in sources : s.prevEnd # None => s.start = s.prevEnd

\* C2 as amended. Within one utterance a segment starts where the segment
\* before it ends when that is at least the lookahead ahead of the clock, and
\* otherwise at the clock plus the lookahead, after a gap; it never overlaps.
C2_ContiguousOrLookahead ==
  \A s \in sources :
    s.prevEnd # None =>
      /\ s.start >= s.prevEnd
      /\ s.start = IF s.prevEnd < s.at + scheduleAhead
                   THEN s.at + scheduleAhead ELSE s.prevEnd

\* two segments of one utterance are outstanding, the second abutting the first
C2_Witness ==
  \E a, b \in sources :
    /\ b.prevEnd = a.start + a.dur
    /\ b.start = b.prevEnd
    /\ b.at + scheduleAhead < b.start

\* C3. No overlap: of two outstanding segments the one scheduled later starts
\* at or after the end of the one scheduled earlier.
C3_NoOverlap ==
  \A i, j \in DOMAIN player.scheduledBuffers :
    i < j =>
      Src(player.scheduledBuffers[j]).start >=
        Src(player.scheduledBuffers[i]).start + Src(player.scheduledBuffers[i]).dur

\* C4. Start-time ordering: a segment never starts earlier than a segment
\* placed before it on the same timeline.
C4_StartOrder ==
  \A s \in sources : s.start >= s.hi

\* C5. Threshold: a step that schedules a segment while the player is in
\* buffering mode is an explicit flush, or a feed that brings the pending
\* samples to the minimum startup buffer.
C5_Threshold ==
  [][(player.isBuffering /\ sched' > sched) =>
       \/ lastOp' = "flush"
       \/ /\ lastOp' = "feed"
          /\ \E n \in ChunkSizes : player.samples + n >= minBufferSize /\ sched' = sched + player.samples + n]_vars

\* a frame has been fed in buffering mode and is held back, below the threshold
C5_Witness ==
  /\ lastOp = "feed"
  /\ player.isBuffering
  /\ player.samples > 0
  /\ player.samples < minBufferSize
  /\ sources = {}

\* C6. Idempotent flush: an explicit flush of an empty pending buffer creates
\* no segment and changes nothing.
C6_EmptyFlushNoOp ==
  [][(lastOp' = "flush" /\ player.samples = 0) =>
       UNCHANGED <<playerVars, arbiterVars, now, connected, config, status, nFeeds>>]_vars

\* response.done with a player whose pending buffer is empty and nothing scheduled
C6_Witness ==
  /\ lastOp = "flush"
  /\ pcmPlayerRef
  /\ player.audioCtx
  /\ player.samples = 0
  /\ sources = {}
  /\ player.scheduledBuffers = <<>>

\* C7. Noise rejection: speech_stopped while the interruption is pending and
\* less than min_speech_duration_ms after speech_started does not interrupt,
\* cancels the debounce timer and leaves the playback state as it is.
C7_NoiseRejected ==
  [][(/\ lastOp' = "speech_stopped"
      /\ pendingInterruptionRef
      /\ speechStartedAtRef # None
      /\ now - speechStartedAtRef < Ms(config.min_speech_duration_ms)) =>
       /\ ~lastStop'
       /\ ~pendingInterruptionRef'
       /\ ~debounceTimer'.armed
       /\ UNCHANGED playerVars]_vars

\* speech_stopped 200 ms after a speech_started that found the AI speaking:
\* the segment is still outstanding and the AI still speaks
C7_Witness ==
  /\ lastOp = "speech_stopped"
  /\ ~lastStop
  /\ speechStartedAtRef # None
  /\ now - speechStartedAtRef = Ms(200)
  /\ ~pendingInterruptionRef
  /\ ~debounceTimer.armed
  /\ isStreamingRef
  /\ player.scheduledBuffers # <<>>

\* C8. Genuine interruption: when the debounce timer fires and no speech event
\* has arrived since the speech_started that armed it, playback is interrupted:
\* no segment is outstanding, nothing is pending and speaking is false.
C8_GenuineInterruption ==
  [][(lastOp' = "debounce" /\ quiet) =>
       /\ lastStop'
       /\ sources' = {}
       /\ player'.scheduledBuffers = <<>>
       /\ player'.samples = 0
       /\ ~player'.isPlaying
       /\ ~isStreamingRef'
       /\ ~pendingInterruptionRef']_vars

\* the timer has fired 300 ms after speech_started and cancelled a segment
C8_Witness ==
  /\ lastOp = "debounce"
  /\ lastStop
  /\ speechStartedAtRef # None
  /\ now - speechStartedAtRef = Ms(DefaultConfig.debounce_ms)
  /\ cancelled # {}
  /\ ~isStreamingRef

\* C9. Shutdown idempotence: a stopSession that follows a stopSession changes
\* nothing.
C9_ShutdownIdempotent ==
  [][(lastOp \in {"stopSession", "stopSessionAgain"} /\ lastOp' = "stopSessionAgain") =>
       UNCHANGED <<playerVars, arbiterVars, now, connected, config, status, nFeeds>>]_vars

\* stopSession has run twice in a row, the first time on a player with a
\* segment scheduled
C9_Witness ==
  /\ lastOp = "stopSessionAgain"
  /\ cancelled # {}
  /\ ~pcmPlayerRef

\* C10. No dangling timers: when stopSession returns no timer of the engine is
\* outstanding.
C10_NoDanglingTimers ==
  lastOp \in {"stopSession", "stopSessionAgain"} =>
    /\ timers = {}
    /\ ~debounceTimer.armed


\* the contents scheduled and pending, in order
Held == played \o pcm

\* the Float32Array element f lies in [-1, 1]
InUnit(f) ==
  \/ f.m = 0
  \/ f.e <= 0 - 24
  \/ f.e = 0 - 23 /\ (f.m = 2^23 \/ f.m = 0 - 2^23)

\* f is exactly s / 32768, for a negative 16-bit sample s
IsOver32768(f, s) ==
  LET k == 0 - f.e
  IN /\ k \in 15 .. 38
     /\ 0 - s < 2^(39 - k)
     /\ 0 - f.m = (0 - s) * 2^(k - 15)

\* f.m * 32767 - s * 2^k for f = f.m * 2^(-k): the distance of f from
\* s / 32767 in units of 2^(-k) / 32767, for a positive 16-bit sample s;
\* Far when the two are not even close
Far == 2^30
Err32767(f, s) ==
  LET k == 0 - f.e
  IN IF k \in 15 .. 39 /\ s < 2^(40 - k)
     THEN LET d == f.m - s * 2^(k - 15)
          IN IF d >= 0 - 2^10 /\ d <= 2^10 THEN 2^15 * d - f.m ELSE Far
     ELSE Far

\* C11 as stated. Decode round trip: the values scheduled and pending are as
\* many as the samples the frames carried, each in [-1, 1] and equal to
\* sample/32768 for a negative sample and to sample/32767 otherwise.
C11_DecodeExact ==
  /\ Len(Held) = Len(arrived)
  /\ \A i \in DOMAIN Held :
       /\ Held[i].n = arrived[i].n
       /\ InUnit(Held[i].v)
       /\ IF arrived[i].v < 0 THEN IsOver32768(Held[i].v, arrived[i].v)
          ELSE IF arrived[i].v = 0 THEN Held[i].v.m = 0
          ELSE Err32767(Held[i].v, arrived[i].v) = 0

\* C11 as amended. As C11, but a positive sample gives the 32-bit float
\* nearest to sample/32767: at most half a unit in the last place away.
C11_DecodeNearest ==
  /\ Len(Held) = Len(arrived)
  /\ \A i \in DOMAIN Held :
       /\ Held[i].n = arrived[i].n
       /\ InUnit(Held[i].v)
       /\ IF arrived[i].v < 0 THEN IsOver32768(Held[i].v, arrived[i].v)
          ELSE IF arrived[i].v = 0 THEN Held[i].v.m = 0
          ELSE /\ 2 * Err32767(Held[i].v, arrived[i].v) <= 2^15 - 1
               /\ 2 * Err32767(Held[i].v, arrived[i].v) >= 1 - 2^15

\* a frame of the samples 1 and -32768 is pending as 8388864 * 2^-38 and -1
C11_Witness ==
  /\ lastOp = "feed"
  /\ arrived = <<[v |-> 1, n |-> 1], [v |-> 0 - 2^15, n |-> 1]>>
  /\ pcm = <<[v |-> [m |-> 2^23 + 256, e |-> 0 - 38], n |-> 1],
             [v |-> [m |-> 0 - 2^23, e |-> 0 - 23], n |-> 1]>>
  /\ player.samples = 2

C13_UnmatchedStopNoOp ==
  [][(lastOp' = "speech_stopped" /\ speechStartedAtRef = None /\ ~pendingInterruptionRef) =>
       /\ ~lastStop'
       /\ UNCHANGED <<playerVars, speechStartedAtRef, pendingInterruptionRef, debounceTimer>>]_vars

\* speech_stopped at time 0 while a segment is scheduled, no speech_started
\* having come since the audio began
C13_Witness ==
  /\ lastOp = "speech_stopped"
  /\ now = 0
  /\ speechStartedAtRef = None
  /\ ~silent
  /\ ~pendingInterruptionRef
  /\ ~debounceTimer.armed
  /\ isStreamingRef
  /\ player.scheduledBuffers # <<>>

\* C14. Timeout drain: samples left in the pending buffer are eventually
\* taken out of it (scheduled, or dropped by an interruption), whether
\* another message arrives or not.
C14_TimeoutDrain == (player.samples > 0) ~> (player.samples = 0)

\* C15. Debounce resolution: an interruption that is pending with its timer
\* set is eventually not pending any more, whether another message arrives
\* or not.
C15_DebounceResolves ==
  (pendingInterruptionRef /\ debounceTimer.armed) ~> ~pendingInterruptionRef

\* the timer has fired after the last message of the run
C15_Witness ==
  /\ lastOp = "debounce"
  /\ now > Horizon
  /\ ~pendingInterruptionRef
  /\ ~debounceTimer.armed
  /\ speechStartedAtRef # None

\* C16. Explicit flush drains everything: response.done with a non-empty
\* pending buffer, in buffering or streaming mode and whatever its size,
\* schedules exactly one segment, of all the pending samples, and leaves the
\* pending buffer empty.
C16_FlushDrainsAll ==
  [][(lastOp' = "flush" /\ player.samples > 0) =>
       /\ player'.samples = 0
       /\ pcm' = <<>>
       /\ played' = played \o pcm
       /\ Cardinality(sources' \ sources) = 1
       /\ \A s \in sources' \ sources : s.dur = player.samples
       /\ Len(player'.scheduledBuffers) = Len(player.scheduledBuffers) + 1
       /\ sources \subseteq sources']_vars

\* response.done in buffering mode, one sample pending: a segment of one sample
C16_Witness ==
  /\ lastOp = "flush"
  /\ player.isBuffering
  /\ player.samples = 0
  /\ fed = 1
  /\ \E s \in sources : s.dur = 1
  /\ Len(player.scheduledBuffers) = 1

\* C17. Confirmed-interruption postcondition: when a handler has called
\* stopAllAudio no segment is outstanding, nothing is pending, the cursor is
\* the current hardware time, the player is in buffering mode, speaking is
\* false and the pending flag is false.
C17_AfterInterruption ==
  [][lastStop' =>
       /\ sources' = {}
       /\ player'.scheduledBuffers = <<>>
       /\ player'.samples = 0
       /\ pcm' = <<>>
       /\ pcmPlayerRef'
       /\ player'.scheduledTime = now'
       /\ player'.isBuffering
       /\ ~player'.isPlaying
       /\ ~isStreamingRef'
       /\ ~pendingInterruptionRef']_vars

\* speech_stopped 400 ms after speech_started has confirmed the interruption
\* of a playing segment
C17_Witness ==
  /\ lastOp = "speech_stopped"
  /\ lastStop
  /\ now >= Ms(DefaultConfig.min_speech_duration_ms)
  /\ player.scheduledTime = now
  /\ cancelled # {}
  /\ sources = {}
  /\ player.isBuffering
  /\ ~isStreamingRef

\* C18. Shutdown is safe from any state: when stopSession returns no segment
\* is outstanding, nothing is pending, speaking is false, no interruption is
\* pending and no debounce timer is set; and from then until the next session
\* no segment is scheduled and no interruption fires.
C18_ShutdownSafe ==
  [][/\ lastOp' \in {"stopSession", "stopSessionAgain"} =>
          /\ sources' = {}
          /\ player'.scheduledBuffers = <<>>
          /\ player'.samples = 0
          /\ pcm' = <<>>
          /\ ~isStreamingRef'
          /\ ~pendingInterruptionRef'
          /\ ~debounceTimer'.armed
          /\ ~pcmPlayerRef'
          /\ ~connected'
     /\ (~connected /\ ~connected') =>
          /\ sources' = {}
          /\ sched' = sched
          /\ ~lastStop'
          /\ ~isStreamingRef'
          /\ ~pendingInterruptionRef']_vars

\* stopSession has run after two frames, with audio scheduled; the cancelled
\* audio has reported its end and the clock has gone on
C18_Witness ==
  /\ lastOp = "other"
  /\ ~connected
  /\ ~pcmPlayerRef
  /\ nFeeds = 2
  /\ now > 0
  /\ sources = {}
  /\ cancelled = {}
  /\ timers # {}
  /\ \E x \in timers : x.kind = "endCheck" /\ x.gen = gen

\* C19. Malformed input: a frame that does not decode changes neither the
\* pending buffer nor the cursor, the buffering mode, the outstanding segments
\* or the speaking flag, nor anything else of the player's fields.
C19_MalformedDropped ==
  [][lastOp' = "badFrame" =>
       UNCHANGED <<player, pcm, played, arrived, fed, sched, sources, cancelled,
                   timers, isStreamingRef, lastEnd, hiStart, arbiterVars>>]_vars

\* a frame with an odd number of bytes has come while a segment is scheduled
\* and the AI speaks
C19_Witness ==
  /\ lastOp = "badFrame"
  /\ nFeeds = 2
  /\ isStreamingRef
  /\ player.isPlaying
  /\ player.scheduledBuffers # <<>>
  /\ \E s \in sources : s.dur = 2

\* C20. Arrival order is preserved: since the last interruption or reset, the
\* contents of the segments in the order they were scheduled, followed by the
\* pending buffer, are the decoded frames in the order they arrived.
C20_ArrivalOrder == Held = int16ToFloat32(arrived)

\* a frame of 3600 samples has been scheduled, the frame after it is pending
C20_Witness ==
  /\ arrived = <<[v |-> 1, n |-> 3600], [v |-> 2, n |-> 1]>>
  /\ Len(played) = 1
  /\ Len(pcm) = 1
  /\ pcm[1].n = 1
  /\ player.samples = 1
  /\ \E s \in sources : s.dur = 3600

\* the step is the callback of a timer that was due: the timer is gone and
\* none has been set
TimerFired(kind) ==
  \E x \in timers : x.kind = kind /\ now >= x.at /\ timers' = timers \ {x}

\* C21. Debounced speaking state: while a scheduled segment has neither ended
\* nor been cancelled, speaking is true; an end notification never clears
\* speaking by itself: apart from interruption and shutdown, speaking is
\* cleared only by the end-check timer's callback, and only when no segment
\* is outstanding at that moment.
C21_DebouncedSpeaking ==
  /\ [](sources # {} => isStreamingRef)
  /\ [](player.scheduledBuffers # <<>> => isStreamingRef)
  /\ [][(isStreamingRef /\ ~isStreamingRef') =>
          \/ lastStop'
          \/ lastOp' \in {"stopSession", "stopSessionAgain"}
          \/ /\ TimerFired("endCheck")
             /\ player.scheduledBuffers = <<>>
             /\ sources = {}]_vars

\* a segment has ended and the end-check timer it set is due, while the
\* segment scheduled after it is still outstanding and the AI still speaks
C21_Witness ==
  /\ isStreamingRef
  /\ Len(player.scheduledBuffers) = 1
  /\ \E s \in sources : ~CanEnd(s)
  /\ \E x \in timers : x.kind = "endCheck" /\ x.gen = gen /\ now >= x.at

\* C22. Suspended timeline: a frame that arrives while the context is
\* suspended makes the engine resume it or, when that fails, surface a status
\* event; either way the frame's samples are accumulated and none is lost.
C22_SuspendedTimeline ==
  [][(lastOp' = "feed" /\ pcmPlayerRef /\ player.audioCtx /\ player.state = "suspended") =>
       /\ player'.state = "running" \/ status' # status
       /\ arrived' # arrived
       /\ played' \o pcm' = int16ToFloat32(arrived')
       /\ fed' = sched' + player'.samples]_vars

\* C23. No scheduling in the past: every segment starts at least the
\* lookahead (50 ms) after the hardware time read when it was scheduled, also
\* when the cursor had fallen behind the clock.
C23_NotInThePast ==
  \A s \in sources : s.start >= s.at + scheduleAhead

\* an underrun: the segment before ended 100 ms before this one was scheduled,
\* and this one starts at the clock plus the lookahead
C23_Witness ==
  \E s \in sources :
    /\ s.prevEnd # None
    /\ s.prevEnd + Ms(100) <= s.at
    /\ s.start = s.at + scheduleAhead

\* C24. A flush only moves the cursor forward: in a handler that calls flush
\* (a frame, response.done) the cursor after it is at least the cursor before
\* it, and greater when a segment was scheduled.
C24_CursorForward ==
  [][lastOp' \in {"feed", "flush"} =>
       /\ player'.scheduledTime >= player.scheduledTime
       /\ sched' > sched => player'.scheduledTime > player.scheduledTime]_vars

\* response.done has scheduled a segment right after the one before it, the
\* cursor being ahead of the clock: the cursor has moved by the segment's length
C24_Witness ==
  /\ lastOp = "flush"
  /\ \E s \in sources :
       /\ s.at = now
       /\ s.prevEnd # None
       /\ s.start = s.prevEnd
       /\ s.start > now + scheduleAhead
       /\ player.scheduledTime = s.start + s.dur

\* C25. Bounded pending buffer: when feed has returned, and in every other
\* state, the pending samples are fewer than the emit threshold of the mode the
\* player is in (the chunk size when streaming, the minimum startup buffer
\* when buffering), and so fewer than the maximum buffer size.
C25_BoundedPending ==
  /\ player.samples < (IF player.isBuffering THEN minBufferSize ELSE chunkSize)
  /\ player.samples < maxBufferSize

\* two frames have been fed in streaming mode and are held back, one sample
\* short of the chunk size
C25_Witness ==
  /\ lastOp = "feed"
  /\ ~player.isBuffering
  /\ player.samples = chunkSize - 1
  /\ Len(pcm) = 2

\* C26. Real-speech confirmation on speech_stopped: speech_stopped that
\* arrives while an interruption is pending, min_speech_duration_ms or more
\* after speech_started, calls stopAllAudio within the handler, clears the
\* pending flag and cancels the debounce timer.
C26_ConfirmedOnStop ==
  [][(/\ lastOp' = "speech_stopped"
      /\ pendingInterruptionRef
      /\ speechStartedAtRef # None
      /\ now - speechStartedAtRef >= Ms(config.min_speech_duration_ms)) =>
       /\ lastStop'
       /\ ~pendingInterruptionRef'
       /\ ~debounceTimer'.armed]_vars

\* the step leaves nothing playing: no segment outstanding, speaking false
Silenced ==
  /\ ~isStreamingRef'
  /\ sources' = {}
  /\ player'.scheduledBuffers = <<>>

C28_QuietAfterStop ==
  lastOp = "speech_stopped" =>
    /\ ~pendingInterruptionRef
    /\ ~debounceTimer.armed

C30_ResetFrame ==
  [][lastOp' = "reset" =>
       /\ IF pcmPlayerRef
          THEN /\ player' = [player EXCEPT
                               !.samples = 0,
                               !.isBuffering = TRUE,
                               !.scheduledTime = IF player.audioCtx THEN now ELSE @]
               /\ pcm' = <<>>
          ELSE UNCHANGED <<player, pcm>>
       /\ UNCHANGED <<pcmPlayerRef, gen, sources, cancelled, timers, isStreamingRef,
                      speechStartedAtRef, pendingInterruptionRef, debounceTimer,
                      now, connected, config, status, nFeeds>>]_vars

\* response.created has come with a segment of 3600 samples scheduled and a
\* frame of one sample pending: the sample is gone, the segment is still
\* outstanding and the AI still speaks
C30_Witness ==
  /\ lastOp = "reset"
  /\ nFeeds = 2
  /\ now = 0
  /\ Cardinality(sources) = 1
  /\ \E s \in sources : s.dur = 3600
  /\ Len(player.scheduledBuffers) = 1
  /\ isStreamingRef
  /\ player.isPlaying
  /\ player.isBuffering
  /\ player.samples = 0
  /\ player.scheduledTime = 0

\* C31. First-segment stability lookahead: the first segment of an utterance
\* (the first one scheduled since the last reset or stop) starts at least
\* 100 ms after the hardware time read when it was scheduled.
C31_FirstSegmentLookahead ==
  \A s \in sources : s.prevEnd = None => s.start >= s.at + Ms(100)

\* C32. At most one interruption-debounce timer is outstanding in any
\* reachable state, and it is the one interruptionDebounceRef holds: a
\* speech_started that finds a timer running clears it before it sets the new
\* one, so no superseded timer is left to fire.
C32_OneDebounceTimer ==
  /\ Cardinality(debounceTimers) <= 1
  /\ debounceTimers = (IF debounceTimer.armed THEN {debounceTimer} ELSE {})

\* a speech_started has arrived while the timer of an earlier one was running
C32_Witness ==
  /\ superseded
  /\ lastOp = "speech_started"
  /\ debounceTimers = {debounceTimer}
  /\ debounceTimer.at = now + Ms(config.debounce_ms)

\* C33. At most one interruption per speech_started: the debounce callback
\* and speech_stopped call stopAllAudio only when neither of them has called
\* it since the most recent speech_started, whatever the order in which the
\* timer fires and speech_stopped arrives.
C33_OneInterruption ==
  [][(lastStop' /\ lastOp' \in {"debounce", "speech_stopped"}) => ~interrupted]_vars

\* the timer has interrupted the playback and the speech_stopped of the same
\* speech has arrived after it, with the AI speaking again
C33_Witness ==
  /\ interrupted
  /\ lastOp = "speech_stopped"
  /\ ~lastStop
  /\ isStreamingRef

\* C34. Sustained-speech lower bound: whenever the debounce callback or
\* speech_stopped interrupts the playback, at least half of
\* min_speech_duration_ms has passed since the most recent speech_started.
C34_SustainedSpeech ==
  [][(lastStop' /\ lastOp' \in {"debounce", "speech_stopped"}) =>
       /\ speechBeganAt # None
       /\ 2 * (now' - speechBeganAt) >= Ms(config.min_speech_duration_ms)]_vars

\* the timer has interrupted the playback at exactly half the threshold
C34_Witness ==
  /\ lastStop
  /\ lastOp = "debounce"
  /\ speechStartedAtRef # None
  /\ 2 * (now - speechStartedAtRef) = Ms(config.min_speech_duration_ms)

\* C35. Interruption only while speaking: the debounce callback and
\* speech_stopped call stopAllAudio only when isStreamingRef is true; a
\* debounce callback that finds it false leaves the player as it is, the
\* samples buffered for a new utterance included.
C35_OnlyWhileSpeaking ==
  [][/\ (lastStop' /\ lastOp' \in {"debounce", "speech_stopped"}) => isStreamingRef
     /\ (lastOp' = "debounce" /\ ~isStreamingRef) =>
          (~lastStop' /\ UNCHANGED playerVars)]_vars

\* C36. The arbiter's view of speaking mirrors the player: whenever a player
\* exists, isStreamingRef equals the player's isPlaying flag.
C36_SpeakingMirrorsPlayer ==
  pcmPlayerRef => (isStreamingRef <=> player.isPlaying)

\* the player speaks again after an interruption has stopped it
C36_Witness ==
  /\ pcmPlayerRef
  /\ player.isPlaying
  /\ isStreamingRef
  /\ player.scheduledBuffers # <<>>
  /\ cancelled # {}

\* the step is the end notification of a segment that stop() had stopped
LateEnd == lastOp' = "other" /\ \E c \in cancelled : cancelled' = cancelled \ {c}

\* C37. Late end notifications are harmless: the end notification of a
\* segment that stop() had stopped removes no outstanding segment and leaves
\* speaking and the Buffering mode as they are; the end-check timer it sets
\* clears speaking and resets the Buffering mode only when no segment is
\* outstanding and no samples are pending.
C37_LateEndHarmless ==
  [][/\ LateEnd =>
          /\ UNCHANGED <<sources, isStreamingRef>>
          /\ player'.scheduledBuffers = player.scheduledBuffers
          /\ player'.isPlaying = player.isPlaying
          /\ player'.isBuffering = player.isBuffering
     /\ (TimerFired("endCheck") /\ (player.scheduledBuffers # <<>> \/ player.samples > 0)) =>
          /\ UNCHANGED isStreamingRef
          /\ player'.isPlaying = player.isPlaying
          /\ player'.isBuffering = player.isBuffering]_vars

\* stop() has run at this instant, a segment has been scheduled since, and
\* the end notification of a stopped segment has set the end-check timer
C37_Witness ==
  /\ \E x \in timers : x.kind = "gain" /\ x.gen = gen /\ x.at = now + Ms(GainResetMs)
  /\ \E x \in timers : x.kind = "endCheck" /\ x.gen = gen /\ x.at = now + Ms(EndCheckMs)
  /\ pcmPlayerRef
  /\ player.scheduledBuffers # <<>>
  /\ isStreamingRef

\* C38. No stale audio after barge-in: an audio frame that arrives right
\* after the arbiter has interrupted the playback, no response.created having
\* come between, is not scheduled for playback.
C38_NoStaleAudio ==
  [][(/\ lastStop
      /\ lastOp \in {"debounce", "speech_stopped"}
      /\ lastOp' = "feed") =>
       (UNCHANGED sources /\ player'.scheduledBuffers = player.scheduledBuffers)]_vars

\* C39. Fade-out does not mute later audio: a segment scheduled after stop()
\* starts no earlier than the time at which the gain reset timer of that
\* stop() restores the gain to 1.
C39_GainRestoredBeforeStart ==
  \A s \in sources : \A x \in timers :
    (/\ x.kind = "gain"
     /\ x.gen = s.gen
     /\ s.at >= x.at - Ms(GainResetMs)) => s.start >= x.at

\* the samples of array a
RECURSIVE RunsLen(_)
RunsLen(a) == IF a = <<>> THEN 0 ELSE Head(a).n + RunsLen(Tail(a))

\* array a holds exactly the n input samples numbered k, k + 1, ..., in order
Carries(a, k, n) ==
  /\ RunsLen(a) = n
  /\ \A i \in 1 .. Len(a) : a[i].first = k + RunsLen(SubSeq(a, 1, i - 1))

\* C40. Microphone capture framing: however the input stream is split into
\* process() calls, one message has been posted per 4096 input samples, the
\* j-th message carries exactly the j-th 4096 samples in arrival order, the
\* samples not yet posted are the first bufferIndex elements of the buffer,
\* and bufferIndex is in 0..4095 whenever process() has returned.
C40_CaptureFraming ==
  /\ capture.bufferIndex \in 0 .. (bufferSize - 1)
  /\ Len(capture.posted) = nInput \div bufferSize
  /\ \A j \in 1 .. Len(capture.posted) :
       Carries(capture.posted[j], (j - 1) * bufferSize + 1, bufferSize)
  /\ capture.bufferIndex = nInput % bufferSize
  /\ Carries(TakeRuns(capture.buffer, capture.bufferIndex),
             nInput - capture.bufferIndex + 1, capture.bufferIndex)

\* three messages have been posted, one of them in the middle of an input
\* and after an input that ended one sample short of a full buffer, and
\* samples of the next message are buffered
C40_Witness ==
  /\ Len(capture.posted) = 3
  /\ Len(capture.posted[1]) > 1
  /\ capture.bufferIndex > 0
  /\ nCalls = 3

====
